---- MODULE Spec2Model ----
(***************************************************************************)
(* 8cubeDB query API (src/api.py): the request handlers that build one SQL *)
(* text from request parameters, run it against a read-only SQLite store   *)
(* and stream the result as CSV, plus the configuration endpoint and the   *)
(* catalog discovered at start-up.                                          *)
(*                                                                          *)
(* Text is a sequence of one-character strings.  A query text is a         *)
(* sequence whose elements are either such characters (every interpolated  *)
(* character and every quote character of the template) or a longer string *)
(* naming a fixed stretch of the template.  The store's SQL reader is      *)
(* SqlTokens: it reads quoted strings and quoted identifiers the way       *)
(* SQLite does (a doubled quote is an embedded quote, a single one ends    *)
(* the token).                                                             *)
(*                                                                          *)
(* Statistics are in tenths: the value 5 stands for 0.5, 10 for 1.0.       *)
(***************************************************************************)
EXTENDS Integers, Sequences, FiniteSets, TLC

VARIABLES
    store,            \* main store /data/8cube.db: [up, table_1, tables]
    exprStore,        \* second store /data/mean_var_DB.db: [up, tables]
    analysis_levels,  \* module global, api.py:77
    analysis_types,   \* module global, api.py:78
    pc,               \* "boot" (module not yet imported), "idle", "done"
    req,              \* the request being answered
    resp,             \* its response
    work,             \* what the request did to the stores: connections opened and
                      \* closed per store, queries executed
    openConns,        \* connections opened and not closed, per store
    pending,          \* a request whose handler runs while other requests are served
    tool              \* the tool call of the MCP server (src/mcp_server.py) being made

vars == <<store, exprStore, analysis_levels, analysis_types, pc, req, resp, work, openConns,
          pending, tool>>

(***************************************************************************)
(* Bounds                                                                   *)
(***************************************************************************)
MaxGenes == 4
MaxOpenConns == 1

(***************************************************************************)
(* Text helpers: str.upper, str.lower, str.capitalize, str.replace          *)
(***************************************************************************)
Lowers == <<"a","b","c","d","e","f","g","h","i","j","k","l","m",
            "n","o","p","q","r","s","t","u","v","w","x","y","z">>
Uppers == <<"A","B","C","D","E","F","G","H","I","J","K","L","M",
            "N","O","P","Q","R","S","T","U","V","W","X","Y","Z">>

IsLowerCh(c) == \E i \in DOMAIN Lowers : Lowers[i] = c
IsUpperCh(c) == \E i \in DOMAIN Uppers : Uppers[i] = c
UpperCh(c) == IF IsLowerCh(c) THEN Uppers[CHOOSE i \in DOMAIN Lowers : Lowers[i] = c] ELSE c
LowerCh(c) == IF IsUpperCh(c) THEN Lowers[CHOOSE i \in DOMAIN Uppers : Uppers[i] = c] ELSE c

\* Two characters outside ASCII, held under the name of their code point: the small
\* sharp s, whose upper case is "SS" and whose title case is "Ss", and the capital
\* sharp s, whose lower case is the small one and whose upper case is itself.
SharpS == "U+00DF"
CapitalSharpS == "U+1E9E"

RECURSIVE Flatten(_)
Flatten(parts) == IF Len(parts) = 0 THEN <<>> ELSE parts[1] \o Flatten(Tail(parts))

\* str.upper, str.lower and str.capitalize of Python
StrUpperCh(c) == IF c = SharpS THEN <<"S", "S">> ELSE <<UpperCh(c)>>
StrLowerCh(c) == IF c = CapitalSharpS THEN <<SharpS>> ELSE <<LowerCh(c)>>
StrTitleCh(c) == IF c = SharpS THEN <<"S", "s">> ELSE <<UpperCh(c)>>
Upper(s) == Flatten([i \in 1..Len(s) |-> StrUpperCh(s[i])])
Capitalize(s) ==
    Flatten([i \in 1..Len(s) |-> IF i = 1 THEN StrTitleCh(s[i]) ELSE StrLowerCh(s[i])])
\* Lower case as the store folds it (NOCASE, identifiers): ASCII letters only
Lower(s) == [i \in 1..Len(s) |-> LowerCh(s[i])]
StartsWith(s, p) == Len(s) >= Len(p) /\ SubSeq(s, 1, Len(p)) = p
ReplaceSpace(s) == [i \in 1..Len(s) |-> IF s[i] = " " THEN "_" ELSE s[i]]

RECURSIVE Join(_, _)
Join(parts, sep) ==
    IF Len(parts) = 0 THEN <<>>
    ELSE IF Len(parts) = 1 THEN parts[1]
    ELSE parts[1] \o sep \o Join(Tail(parts), sep)

Range(s) == {s[i] : i \in DOMAIN s}

\* Characters ordered by code point (what sorted() compares).
CodeOrder == <<" ", "\"", "'", "0","1","2","3","4","5","6","7","8","9">> \o Uppers \o <<"_">> \o Lowers
Code(c) == CHOOSE i \in DOMAIN CodeOrder : CodeOrder[i] = c
RECURSIVE TextLess(_, _)
TextLess(a, b) ==
    IF Len(b) = 0 THEN FALSE
    ELSE IF Len(a) = 0 THEN TRUE
    ELSE IF a[1] = b[1] THEN TextLess(Tail(a), Tail(b))
    ELSE Code(a[1]) < Code(b[1])

\* sorted(values): the one sequence over the set that is increasing.
Sorted(S) == CHOOSE s \in [1..Cardinality(S) -> S] :
                 \A i \in 1..Cardinality(S), j \in 1..Cardinality(S) : i < j => TextLess(s[i], s[j])

\* All orders in which the rows of a set can come back.
Orderings(S) == {s \in [1..Cardinality(S) -> S] : \A i, j \in 1..Cardinality(S) : i # j => s[i] # s[j]}

(***************************************************************************)
(* normalize_gene_inputs                                                    *)
(***************************************************************************)
ENS == <<"E","N","S">>

normalize_gene_inputs(gene_list) ==
    [i \in 1..Len(gene_list) |->
        IF StartsWith(Upper(gene_list[i]), ENS)
        THEN Upper(gene_list[i])
        ELSE Capitalize(gene_list[i])]

(***************************************************************************)
(* The store's SQL reader                                                   *)
(***************************************************************************)
TextChars == Range(CodeOrder) \cup {"|", "."}
IsQuote(e) == e = "'" \/ e = "\""

\* Position just after the quoted token opened at i-1 with quote q, or 0 when
\* the text ends inside it.
RECURSIVE QuotedEnd(_, _, _)
QuotedEnd(q, elems, i) ==
    IF i > Len(elems) THEN 0
    ELSE IF elems[i] = q
         THEN IF i + 1 <= Len(elems) /\ elems[i + 1] = q
              THEN QuotedEnd(q, elems, i + 2)
              ELSE i + 1
         ELSE QuotedEnd(q, elems, i + 1)

\* The content of the quoted token spanning elems[i..j-2], doubled quotes read as one.
RECURSIVE QuotedContent(_, _, _, _)
QuotedContent(q, elems, i, j) ==
    IF i >= j - 1 THEN <<>>
    ELSE IF elems[i] = q
         THEN <<q>> \o QuotedContent(q, elems, i + 2, j)
         ELSE <<elems[i]>> \o QuotedContent(q, elems, i + 1, j)

\* Tokens of a query text: <<"str", content>>, <<"id", content>>, <<"sym", fixed text>>,
\* <<"raw", character>> for an interpolated character outside any quotes, and
\* <<"bad", <<>>>> for an unterminated quoted token.
RECURSIVE SqlTokensFrom(_, _)
SqlTokensFrom(elems, i) ==
    IF i > Len(elems) THEN <<>>
    ELSE IF IsQuote(elems[i])
         THEN LET j == QuotedEnd(elems[i], elems, i + 1)
              IN  IF j = 0 THEN << <<"bad", <<>> >> >>
                  ELSE << <<IF elems[i] = "'" THEN "str" ELSE "id",
                            QuotedContent(elems[i], elems, i + 1, j)>> >>
                       \o SqlTokensFrom(elems, j)
         ELSE IF elems[i] = " " THEN SqlTokensFrom(elems, i + 1)
         ELSE IF elems[i] \in TextChars
              THEN << <<"raw", <<elems[i]>> >> >> \o SqlTokensFrom(elems, i + 1)
              ELSE << <<"sym", <<elems[i]>> >> >> \o SqlTokensFrom(elems, i + 1)

SqlTokens(elems) == SqlTokensFrom(elems, 1)

Sym(name) == <<"sym", <<name>> >>

\* A comma-separated list of string literals.
IsStringList(toks) ==
    /\ Len(toks) = 0 \/ Len(toks) % 2 = 1
    /\ \A k \in DOMAIN toks :
          IF k % 2 = 1 THEN toks[k][1] = "str" ELSE toks[k] = Sym(", ")
StringListValues(toks) == {toks[k][2] : k \in {k \in DOMAIN toks : k % 2 = 1}}

\* gene_str = ', '.join(f"'{g}'" for g in gene_list)
RECURSIVE GeneStr(_)
GeneStr(gene_list) ==
    IF Len(gene_list) = 0 THEN <<>>
    ELSE <<"'">> \o gene_list[1] \o <<"'">>
         \o (IF Len(gene_list) = 1 THEN <<>> ELSE <<", ">> \o GeneStr(Tail(gene_list)))

\* WHERE gene_name COLLATE NOCASE IN (gene_str) OR ensembl_id COLLATE NOCASE IN (gene_str)
WhereText(gene_list) ==
    <<"WHERE gene_name COLLATE NOCASE IN (">> \o GeneStr(gene_list)
    \o <<") OR ensembl_id COLLATE NOCASE IN (">> \o GeneStr(gene_list) \o <<")">>

\* What the store reads in that text: [ok, names, ids] where names (ids) is the set of
\* literals gene_name (ensembl_id) is compared with; ids is empty when the second
\* condition was swallowed by a string literal.
ParseWhere(toks) ==
    LET n == Len(toks)
        mids == {k \in 1..n : toks[k] = Sym(") OR ensembl_id COLLATE NOCASE IN (")}
    IN  IF n < 2 \/ toks[1] # Sym("WHERE gene_name COLLATE NOCASE IN (") \/ toks[n] # Sym(")")
        THEN [ok |-> FALSE, names |-> {}, ids |-> {}]
        ELSE IF mids = {}
        THEN LET l1 == SubSeq(toks, 2, n - 1)
             IN  IF IsStringList(l1)
                 THEN [ok |-> TRUE, names |-> StringListValues(l1), ids |-> {}]
                 ELSE [ok |-> FALSE, names |-> {}, ids |-> {}]
        ELSE IF Cardinality(mids) = 1
        THEN LET m == CHOOSE k \in mids : TRUE
                 l1 == SubSeq(toks, 2, m - 1)
                 l2 == SubSeq(toks, m + 1, n - 1)
             IN  IF IsStringList(l1) /\ IsStringList(l2)
                 THEN [ok |-> TRUE, names |-> StringListValues(l1), ids |-> StringListValues(l2)]
                 ELSE [ok |-> FALSE, names |-> {}, ids |-> {}]
        ELSE [ok |-> FALSE, names |-> {}, ids |-> {}]

\* x COLLATE NOCASE IN (literals)
NocaseIn(x, literals) == \E l \in literals : Lower(l) = Lower(x)
BinaryIn(x, literals) == x \in literals


(***************************************************************************)
(* The stores                                                               *)
(***************************************************************************)
Lv == <<"L","v">>
Ht == <<"H","t">>
St == <<"S","t">>
Ct == <<"C","t">>
Xi == <<"X","i">>
mT == <<"m","T">>
ENS1 == <<"E","N","S","1">>
ENS2 == <<"E","N","S","2">>
B6 == <<"B","6">>
Nz == <<"N","z">>
GeneNameCol == <<"g","e","n","e","_","n","a","m","e">>
EnsemblIdCol == <<"e","n","s","e","m","b","l","_","i","d">>
AnalysisLevelCol == <<"A","n","a","l","y","s","i","s","_","l","e","v","e","l">>
AnalysisTypeCol == <<"A","n","a","l","y","s","i","s","_","t","y","p","e">>
PsiMeanCol == <<"P","s","i","_","m","e","a","n">>
ZetaMeanCol == <<"Z","e","t","a","_","m","e","a","n">>
MeanB6Col == <<"m","e","a","n","_","B","6">>
VarianceB6Col == <<"v","a","r","i","a","n","c","e","_","B","6">>

Table1Columns == <<GeneNameCol, EnsemblIdCol, AnalysisLevelCol, AnalysisTypeCol, PsiMeanCol, ZetaMeanCol>>

Row(g, e, l, t, p, z) ==
    [gene_name |-> g, ensembl_id |-> e, Analysis_level |-> l, Analysis_type |-> t,
     Psi_mean |-> p, Zeta_mean |-> z]

\* table_1 holds at most one row per (gene, level, type).
Slot1 == {{}} \cup {{Row(Xi, ENS1, Lv, St, s[1], s[2])} : s \in {<<10, 10>>, <<5, 5>>, <<10, 0>>}}
Slot2 == {{}} \cup {{Row(mT, ENS2, Lv, St, s[1], s[2])} : s \in {<<10, 10>>, <<10, 5>>}}
Slot3 == {{}} \cup {{Row(Xi, ENS1, Ht, Ct, 5, 5)}}
Table1Choices == {a \cup b \cup c : a \in Slot1, b \in Slot2, c \in Slot3}

\* f"{level}_{type}"
TableName(level, type) == level \o <<"_">> \o type

\* A partition table: its columns in declaration order and its rows in rowid order.
FullTable == [columns |-> <<GeneNameCol, EnsemblIdCol, B6, Nz>>,
              rows |-> << <<Xi, ENS1, 10, 0>>, <<mT, ENS2, 5, 5>> >>]
BareTable == [columns |-> <<GeneNameCol, EnsemblIdCol, AnalysisLevelCol>>,
              rows |-> << <<Xi, ENS1, Ht>> >>]
PartitionChoices ==
    {[n \in D |-> IF n = TableName(Lv, St) THEN FullTable ELSE BareTable] :
        D \in SUBSET {TableName(Lv, St), TableName(Ht, Ct)}}

ExprTable == [columns |-> <<GeneNameCol, EnsemblIdCol, MeanB6Col, VarianceB6Col>>,
              rows |-> << <<Xi, ENS1, 10, 5>>, <<mT, ENS2, 5, 0>> >>]
ExprTables == [n \in {TableName(Lv, St)} |-> ExprTable]

StoreChoices ==
    {[up |-> TRUE, table_1 |-> t, tables |-> p] : t \in Table1Choices, p \in PartitionChoices}
    \cup {[up |-> FALSE, table_1 |-> {}, tables |-> [n \in {} |-> FullTable]]}
ExprStoreChoices == {[up |-> b, tables |-> ExprTables] : b \in BOOLEAN}
\* The second store is taken away only next to the fullest main store or a missing one.
StorePairs ==
    {p \in StoreChoices \X ExprStoreChoices :
        p[2].up \/ ~p[1].up \/ Cardinality(p[1].table_1) = Cardinality(UNION Table1Choices) - 2}

(***************************************************************************)
(* Requests and responses                                                   *)
(***************************************************************************)
NoText == <<>>
Request(op, level, type, genes, label, c1, c2) ==
    [op |-> op, analysis_level |-> level, analysis_type |-> type, gene_list |-> genes,
     block_label |-> label, cutoff1 |-> c1, cutoff2 |-> c2]
NoRequest == Request("none", NoText, NoText, <<>>, NoText, 0, 0)

Response(status, detail, columns, rows, filename, labels, config) ==
    [status |-> status, detail |-> detail, columns |-> columns, rows |-> rows,
     filename |-> filename, block_labels |-> labels, analysis_config |-> config]
NoResponse == Response(0, "none", <<>>, <<>>, NoText, <<>>, <<>>)
\* raise HTTPException / an exception the handler does not catch / parameter validation
ErrorResponse(status, detail) == Response(status, detail, <<>>, <<>>, NoText, <<>>, <<>>)
Unhandled == ErrorResponse(500, "unhandled")
Unprocessable == ErrorResponse(422, "validation")

df_to_csv_stream_or_404(columns, rows, filename) ==
    IF rows = <<>> THEN ErrorResponse(404, "empty")
    ELSE Response(200, "csv", columns, rows, filename, <<>>, <<>>)

df_to_csv_stream(columns, rows, filename) ==
    Response(200, "csv", columns, rows, filename, <<>>, <<>>)

\* What a request did: connections opened and closed on each store, queries executed.
Work(mo, mc, eo, ec, q) ==
    [mainOpened |-> mo, mainClosed |-> mc, exprOpened |-> eo, exprClosed |-> ec, queries |-> q]
NoWork == Work(0, 0, 0, 0, 0)
\* What a handler gives for a request: its response and what it did to the stores
Reply(response, w) == [response |-> response, work |-> w]
\* n times: connect to the main store, execute one query, close
MainQueries(n) == Work(n, n, 0, 0, n)
\* the same where the query raised past conn.close()
MainQueryNotClosed == Work(1, 0, 0, 0, 1)
ExprQuery == Work(0, 0, 1, 1, 1)

\* Request inputs
\* A token that closes the literal and the list and goes on with a statement of its own.
DropStatement == "drop table lv_st"
DropToken == <<"'", ")", ";", DropStatement, ";">>
\* A name that reads as an accession only once its capital sharp s has been lowered.
SharpToken == <<"e", "n", CapitalSharpS, "1">>
Tokens == {<<"x","I">>, <<"e","n","s","2">>, <<"a"," ","b">>, <<"x","'">>, <<"'">>, DropToken,
           SharpToken}
LongListTokens == {<<"x","I">>, <<"a"," ","b">>}
\* Lists of up to two tokens, and longer ones that go on with their second token.
GeneLists ==
    UNION {{gl \in [1..n -> IF n <= 2 THEN Tokens ELSE LongListTokens] :
                \A i \in 3..n : gl[i] = gl[2]} : n \in 0..MaxGenes}
FilterLists == {gl \in GeneLists : Len(gl) <= 1 \/ (Cardinality(Range(gl)) = 1 /\ Range(gl) \subseteq LongListTokens)}
LevelInputs == {Lv, Ht}
TypeInputs == {St, Ct}
Cutoffs == {0, 5, 10}
BlockCutoffs == {0, 5}

\* Enum validation of a path/query parameter by FastAPI
ValidEnum(value, members) == value \in Range(members)

Digits == <<"0","1","2","3","4","5","6","7","8","9">>
RECURSIVE IntText(_)
IntText(n) == IF n < 10 THEN <<Digits[n + 1]>> ELSE IntText(n \div 10) \o <<Digits[(n % 10) + 1]>>

SpecificityCsv == <<"_","s","p","e","c","i","f","i","c","i","t","y",".","c","s","v">>
FilenameListLimit == 3

(***************************************************************************)
(* Start-up: get_unique_values and the module globals                       *)
(***************************************************************************)
\* No request is held back; no tool call is being made.
NoPending == [state |-> "none", request |-> NoRequest, alone |-> {}, overtaken |-> FALSE]
NoTool == [name |-> "none", arguments |-> <<>>, outcome |-> "none", text |-> "none",
           calls |-> <<>>, shown |-> <<>>]

get_unique_values(column_name) ==
    IF ~store.up THEN <<>>
    ELSE Sorted({r[column_name] : r \in store.table_1})

Init ==
    /\ \E p \in StorePairs : store = p[1] /\ exprStore = p[2]
    /\ analysis_levels = <<>>
    /\ analysis_types = <<>>
    /\ pc = "boot"
    /\ req = NoRequest
    /\ resp = NoResponse
    /\ work = NoWork
    /\ openConns = [main |-> 0, expr |-> 0]
    /\ pending = NoPending
    /\ tool = NoTool

Startup ==
    /\ pc = "boot"
    /\ analysis_levels' = get_unique_values("Analysis_level")
    /\ analysis_types' = get_unique_values("Analysis_type")
    /\ pc' = "idle"
    /\ UNCHANGED <<store, exprStore, req, resp, work, openConns, pending, tool>>

\* The response has been sent; the server waits for the next request.
NextRequest ==
    /\ pc = "done"
    /\ pc' = "idle"
    /\ req' = NoRequest
    /\ resp' = NoResponse
    /\ work' = NoWork
    /\ pending' = IF pending.state = "finished" THEN NoPending ELSE pending
    /\ tool' = NoTool
    /\ UNCHANGED <<store, exprStore, analysis_levels, analysis_types, openConns>>

\* T2."{block_label}"
ColumnText(block_label) == <<"\"">> \o block_label \o <<"\"">>

\* The query text of lines 280-290 (the cutoffs are numbers and part of the fixed text).
MarkerText(level, type, block_label) ==
    <<"SELECT T1.*, T2.">> \o ColumnText(block_label)
    \o <<" FROM ", "\"", "table_1", "\"", " AS T1 INNER JOIN ", "\"">> \o TableName(level, type)
    \o <<"\"", " AS T2 ON T1.gene_name = T2.gene_name WHERE T1.Analysis_level = ", "'">> \o level
    \o <<"'", " AND T1.Analysis_type = ", "'">> \o type
    \o <<"'", " AND T1.Psi_mean > psi_cutoff AND T2.">> \o ColumnText(block_label)
    \o <<" > psi_block_cutoff ORDER BY T1.Psi_mean DESC, T2.">> \o ColumnText(block_label)
    \o <<" DESC">>

\* The interpolated stretch of the query text a request's handler sends to the store.
QueryText(request) ==
    IF request.op \in {"specificity", "psi_block", "gene_expression"} /\ Len(request.gene_list) > 0
    THEN WhereText(normalize_gene_inputs(request.gene_list))
    ELSE IF request.op = "marker"
    THEN MarkerText(request.analysis_level, request.analysis_type, request.block_label)
    ELSE <<>>

StoreAfterExecuteScript(s, elems) ==
    LET toks == SqlTokens(elems)
    IN  IF \E k \in 1..(Len(toks) - 1) : toks[k] = Sym(";") /\ toks[k + 1] = Sym(DropStatement)
        THEN [s EXCEPT !.tables = [n \in DOMAIN s.tables \ {TableName(Lv, St)} |-> s.tables[n]]]
        ELSE s

\* The contents of a store after pd.read_sql_query(query, conn): the text goes to
\* cursor.execute, which runs one statement, a SELECT here, and refuses a text
\* holding a further statement before anything of it has run.
StoreAfterExecute(s, elems) == s

CanServe == pc = "idle" /\ openConns.main < MaxOpenConns /\ openConns.expr < MaxOpenConns

RespondNarrowingCatalog(request, response, w) ==
    /\ pc' = "done"
    /\ req' = request
    /\ resp' = response
    /\ work' = w
    /\ openConns' = [main |-> openConns.main + w.mainOpened - w.mainClosed,
                     expr |-> openConns.expr + w.exprOpened - w.exprClosed]
    /\ UNCHANGED <<store, exprStore, analysis_types>>
    /\ analysis_levels' = IF request.analysis_level # NoText /\ response.status = 200
                          THEN <<request.analysis_level>> ELSE analysis_levels

\* A handler returns: the response goes out, and the stores are what the handler's
\* query left them.  The module globals are read by the handlers and never assigned.
Respond(request, response, w) ==
    /\ pc' = "done"
    /\ req' = request
    /\ resp' = response
    /\ work' = w
    /\ openConns' = [main |-> openConns.main + w.mainOpened - w.mainClosed,
                     expr |-> openConns.expr + w.exprOpened - w.exprClosed]
    /\ store' = IF w.mainOpened > 0 /\ w.queries > 0
                 THEN StoreAfterExecute(store, QueryText(request)) ELSE store
    /\ exprStore' = IF w.exprOpened > 0 /\ w.queries > 0
                     THEN StoreAfterExecute(exprStore, QueryText(request)) ELSE exprStore
    /\ UNCHANGED <<analysis_levels, analysis_types>>

\* A request handled from arrival to response in one step; a request held back
\* meanwhile has been overtaken.
Answer(request, response, w) ==
    /\ Respond(request, response, w)
    /\ pending' = IF pending.state = "begun" THEN [pending EXCEPT !.overtaken = TRUE] ELSE pending
    /\ UNCHANGED tool

(***************************************************************************)
(* /specificity                                                             *)
(***************************************************************************)
\* What the query of lines 160-168 gives on table_1: [ok, rows], ok false when the
\* store rejects the query text.
specificity_rows_exact(gene_list, table) ==
    LET q == ParseWhere(SqlTokens(WhereText(gene_list)))
    IN  [ok |-> q.ok,
         rows |-> IF ~q.ok THEN {}
                  ELSE {r \in table : BinaryIn(r.gene_name, q.names) \/ BinaryIn(r.ensembl_id, q.ids)}]

specificity_rows(gene_list, table) ==
    LET q == ParseWhere(SqlTokens(WhereText(normalize_gene_inputs(gene_list))))
    IN  [ok |-> q.ok,
         rows |-> IF ~q.ok THEN {}
                  ELSE {r \in table : NocaseIn(r.gene_name, q.names) \/ NocaseIn(r.ensembl_id, q.ids)}]

specificity_filename_strict(gene_list) ==
    LET normalized == normalize_gene_inputs(gene_list)
    IN  IF Len(normalized) < FilenameListLimit
        THEN Join([i \in 1..Len(normalized) |-> ReplaceSpace(normalized[i])], <<"_">>) \o SpecificityCsv
        ELSE IntText(Len(normalized)) \o SpecificityCsv

specificity_filename(gene_list) ==
    LET normalized == normalize_gene_inputs(gene_list)
    IN  IF Len(normalized) <= FilenameListLimit
        THEN Join([i \in 1..Len(normalized) |-> ReplaceSpace(normalized[i])], <<"_">>) \o SpecificityCsv
        ELSE IntText(Len(normalized)) \o SpecificityCsv

GeneListOptional(gene_list) == TRUE

\* gene_list: list[str] = Query(...): the parameter is required
GeneListAccepted(gene_list) == Len(gene_list) > 0

specificity_replies(gene_list) ==
    IF ~GeneListAccepted(gene_list) THEN {Reply(Unprocessable, NoWork)}
    ELSE IF ~store.up THEN {Reply(Unhandled, NoWork)}
    ELSE LET found == specificity_rows(gene_list, store.table_1)
         IN  IF ~found.ok
             THEN {Reply(Unhandled, MainQueryNotClosed)}
             ELSE {Reply(df_to_csv_stream(Table1Columns, rows, specificity_filename(gene_list)),
                         MainQueries(1)) : rows \in Orderings(found.rows)}

extract_all_specificity_per_gene ==
    /\ CanServe
    /\ \E gene_list \in GeneLists :
          \E r \in specificity_replies(gene_list) :
              Answer(Request("specificity", NoText, NoText, gene_list, NoText, 0, 0),
                     r.response, r.work)

(***************************************************************************)
(* /psi_block and /gene_expression                                          *)
(***************************************************************************)
PsiBlockCsv == <<"_","p","s","i","_","b","l","o","c","k",".","c","s","v">>
GeneExprCsv == <<"_","g","e","n","e","_","e","x","p","r",".","c","s","v">>
AllPrefix == <<"a","l","l","_">>

ColumnIndex(table, name) == CHOOSE i \in DOMAIN table.columns : table.columns[i] = name

table_select_missing_empty(tables, table_name, gene_list) ==
    IF table_name \notin DOMAIN tables THEN [ok |-> TRUE, columns |-> <<>>, rows |-> {}]
    ELSE LET table == tables[table_name]
         IN  IF Len(gene_list) = 0
             THEN [ok |-> TRUE, columns |-> table.columns, rows |-> Range(table.rows)]
             ELSE LET q == ParseWhere(SqlTokens(WhereText(normalize_gene_inputs(gene_list))))
                      g == ColumnIndex(table, GeneNameCol)
                      e == ColumnIndex(table, EnsemblIdCol)
                  IN  [ok |-> q.ok, columns |-> table.columns,
                       rows |-> IF ~q.ok THEN {}
                                ELSE {r \in Range(table.rows) :
                                        NocaseIn(r[g], q.names) \/ NocaseIn(r[e], q.ids)}]

\* SELECT * FROM <table_name> [WHERE ...] on a store's partition tables: [ok, columns, rows]
table_select(tables, table_name, gene_list) ==
    IF table_name \notin DOMAIN tables THEN [ok |-> FALSE, columns |-> <<>>, rows |-> {}]
    ELSE LET table == tables[table_name]
         IN  IF Len(gene_list) = 0
             THEN [ok |-> TRUE, columns |-> table.columns, rows |-> Range(table.rows)]
             ELSE LET q == ParseWhere(SqlTokens(WhereText(normalize_gene_inputs(gene_list))))
                      g == ColumnIndex(table, GeneNameCol)
                      e == ColumnIndex(table, EnsemblIdCol)
                  IN  [ok |-> q.ok, columns |-> table.columns,
                       rows |-> IF ~q.ok THEN {}
                                ELSE {r \in Range(table.rows) :
                                        NocaseIn(r[g], q.names) \/ NocaseIn(r[e], q.ids)}]

table_filename(gene_list, table_name, suffix) ==
    LET normalized == normalize_gene_inputs(gene_list)
    IN  IF Len(gene_list) > 0
        THEN IF Len(normalized) <= FilenameListLimit
             THEN Join([i \in 1..Len(normalized) |-> ReplaceSpace(normalized[i])], <<"_">>)
                  \o <<"_">> \o table_name \o suffix
             ELSE IntText(Len(normalized)) \o <<"_">> \o table_name \o suffix
        ELSE AllPrefix \o table_name \o suffix

psi_block_replies(level, type, gene_list) ==
    LET table_name == TableName(level, type)
    IN  IF ~ValidEnum(level, analysis_levels) \/ ~ValidEnum(type, analysis_types)
        THEN {Reply(Unprocessable, NoWork)}
        ELSE IF ~store.up THEN {Reply(Unhandled, NoWork)}
        ELSE LET df == table_select(store.tables, table_name, gene_list)
             IN  IF ~df.ok
                 THEN {Reply(ErrorResponse(404, "table_not_found"), MainQueries(1))}
                 ELSE {Reply(df_to_csv_stream(df.columns, rows,
                                 table_filename(gene_list, table_name, PsiBlockCsv)),
                             MainQueries(1)) : rows \in Orderings(df.rows)}

extract_psi_block ==
    /\ CanServe
    /\ \E level \in LevelInputs, type \in TypeInputs, gene_list \in FilterLists :
          \E r \in psi_block_replies(level, type, gene_list) :
              Answer(Request("psi_block", level, type, gene_list, NoText, 0, 0), r.response, r.work)

gene_expression_replies(level, type, gene_list) ==
    LET table_name == TableName(level, type)
    IN  IF ~ValidEnum(level, analysis_levels) \/ ~ValidEnum(type, analysis_types)
        THEN {Reply(Unprocessable, NoWork)}
        ELSE IF ~exprStore.up THEN {Reply(Unhandled, NoWork)}
        ELSE LET df == table_select(exprStore.tables, table_name, gene_list)
             IN  IF ~df.ok
                 THEN {Reply(ErrorResponse(404, "table_not_found"), ExprQuery)}
                 ELSE {Reply(df_to_csv_stream(df.columns, rows,
                                 table_filename(gene_list, table_name, GeneExprCsv)),
                             ExprQuery) : rows \in Orderings(df.rows)}

extract_gene_expression ==
    /\ CanServe
    /\ \E level \in LevelInputs, type \in TypeInputs, gene_list \in FilterLists :
          \E r \in gene_expression_replies(level, type, gene_list) :
              Answer(Request("gene_expression", level, type, gene_list, NoText, 0, 0),
                     r.response, r.work)

(***************************************************************************)
(* /highly_specific and /non_specific                                       *)
(***************************************************************************)
HighlySpecificCsv == <<"h","i","g","h","l","y","_","s","p","e","c","i","f","i","c",".","c","s","v">>
NonSpecificCsv == <<"n","o","n","_","s","p","e","c","i","f","i","c",".","c","s","v">>

highly_specific_where_inclusive(r, level, type, psi_cutoff, zeta_cutoff) ==
    /\ r.Analysis_level = level
    /\ r.Analysis_type = type
    /\ r.Psi_mean > psi_cutoff
    /\ r.Zeta_mean >= zeta_cutoff

\* WHERE Analysis_level = .. AND Analysis_type = .. AND Psi_mean > .. AND Zeta_mean > ..
highly_specific_where(r, level, type, psi_cutoff, zeta_cutoff) ==
    /\ r.Analysis_level = level
    /\ r.Analysis_type = type
    /\ r.Psi_mean > psi_cutoff
    /\ r.Zeta_mean > zeta_cutoff

\* WHERE Analysis_level = .. AND Analysis_type = .. AND Psi_mean > .. AND Zeta_mean < ..
non_specific_where(r, level, type, psi_cutoff, zeta_cutoff) ==
    /\ r.Analysis_level = level
    /\ r.Analysis_type = type
    /\ r.Psi_mean > psi_cutoff
    /\ r.Zeta_mean < zeta_cutoff

\* ORDER BY Psi_mean DESC, Zeta_mean DESC: r1 may come before r2
highly_specific_order(r1, r2) ==
    \/ r1.Psi_mean > r2.Psi_mean
    \/ r1.Psi_mean = r2.Psi_mean /\ r1.Zeta_mean >= r2.Zeta_mean

non_specific_order_desc(r1, r2) ==
    \/ r1.Psi_mean > r2.Psi_mean
    \/ r1.Psi_mean = r2.Psi_mean /\ r1.Zeta_mean >= r2.Zeta_mean

\* ORDER BY Psi_mean DESC, Zeta_mean ASC
non_specific_order(r1, r2) ==
    \/ r1.Psi_mean > r2.Psi_mean
    \/ r1.Psi_mean = r2.Psi_mean /\ r1.Zeta_mean <= r2.Zeta_mean

highly_specific_replies(level, type, psi_cutoff, zeta_cutoff) ==
    IF ~ValidEnum(level, analysis_levels) \/ ~ValidEnum(type, analysis_types)
    THEN {Reply(Unprocessable, NoWork)}
    ELSE IF ~store.up THEN {Reply(Unhandled, NoWork)}
    ELSE {Reply(df_to_csv_stream(Table1Columns, rows, HighlySpecificCsv), MainQueries(1)) :
            rows \in {s \in Orderings({r \in store.table_1 :
                            highly_specific_where(r, level, type, psi_cutoff, zeta_cutoff)}) :
                        \A i, j \in DOMAIN s : i < j => highly_specific_order(s[i], s[j])}}

extract_highly_specific ==
    /\ CanServe
    /\ \E level \in LevelInputs, type \in TypeInputs, psi_cutoff \in Cutoffs, zeta_cutoff \in Cutoffs :
          \E r \in highly_specific_replies(level, type, psi_cutoff, zeta_cutoff) :
              Answer(Request("highly_specific", level, type, <<>>, NoText, psi_cutoff, zeta_cutoff),
                     r.response, r.work)

non_specific_replies(level, type, psi_cutoff, zeta_cutoff) ==
    IF ~ValidEnum(level, analysis_levels) \/ ~ValidEnum(type, analysis_types)
    THEN {Reply(Unprocessable, NoWork)}
    ELSE IF ~store.up THEN {Reply(Unhandled, NoWork)}
    ELSE {Reply(df_to_csv_stream(Table1Columns, rows, NonSpecificCsv), MainQueries(1)) :
            rows \in {s \in Orderings({r \in store.table_1 :
                            non_specific_where(r, level, type, psi_cutoff, zeta_cutoff)}) :
                        \A i, j \in DOMAIN s : i < j => non_specific_order(s[i], s[j])}}

extract_non_specific ==
    /\ CanServe
    /\ \E level \in LevelInputs, type \in TypeInputs, psi_cutoff \in Cutoffs, zeta_cutoff \in Cutoffs :
          \E r \in non_specific_replies(level, type, psi_cutoff, zeta_cutoff) :
              Answer(Request("non_specific", level, type, <<>>, NoText, psi_cutoff, zeta_cutoff),
                     r.response, r.work)

(***************************************************************************)
(* /marker                                                                  *)
(***************************************************************************)
MarkerCsv == <<"m","a","r","k","e","r","_","g","e","n","e","s",".","c","s","v">>
BlockLabelInputs ==
    {B6, <<"b","6">>, <<"z","z">>, <<"r","o","w","i","d">>, <<"B","6","\"">>,
     <<"B","6","\"","|","|","T","2",".","\"","N","z">>}

\* The tokens of that text when the column position holds the tokens col.
MarkerShape(col, level, type) ==
    <<Sym("SELECT T1.*, T2.")>> \o col
    \o <<Sym(" FROM "), <<"id", <<"table_1">> >>, Sym(" AS T1 INNER JOIN "),
         <<"id", TableName(level, type)>>,
         Sym(" AS T2 ON T1.gene_name = T2.gene_name WHERE T1.Analysis_level = "),
         <<"str", level>>, Sym(" AND T1.Analysis_type = "), <<"str", type>>,
         Sym(" AND T1.Psi_mean > psi_cutoff AND T2.")>> \o col
    \o <<Sym(" > psi_block_cutoff ORDER BY T1.Psi_mean DESC, T2.")>> \o col
    \o <<Sym(" DESC")>>

\* A column position the store accepts: one identifier, or two joined by ||
\* (T2."a" || T2."b").
ConcatTokens == << <<"raw", <<"|">> >>, <<"raw", <<"|">> >>, <<"raw", <<"T">> >>,
                   <<"raw", <<"2">> >>, <<"raw", <<".">> >> >>
IsColumnExpr(col) ==
    \/ Len(col) = 1 /\ col[1][1] = "id"
    \/ /\ Len(col) = 7
       /\ col[1][1] = "id"
       /\ SubSeq(col, 2, 6) = ConcatTokens
       /\ col[7][1] = "id"
ColumnNames(col) == IF Len(col) = 1 THEN <<col[1][2]>> ELSE <<col[1][2], col[7][2]>>

RowidNames == {<<"r","o","w","i","d">>, <<"o","i","d">>, <<"_","r","o","w","i","d","_">>}

\* How the store resolves T2."name": a declared column (names compare without case),
\* else the rowid under one of its names, else nothing.
ResolvesToColumn(table, name) == \E i \in DOMAIN table.columns : Lower(table.columns[i]) = Lower(name)
ResolvesToRowid(table, name) == ~ResolvesToColumn(table, name) /\ Lower(name) \in RowidNames
Resolves(table, name) == ResolvesToColumn(table, name) \/ ResolvesToRowid(table, name)

\* The value of T2."name" in the row at position k of the table; a rowid r is held
\* as 10 * r on the scale of the statistics.
ColumnValue(table, k, name) ==
    IF ResolvesToColumn(table, name)
    THEN table.rows[k][CHOOSE i \in DOMAIN table.columns : Lower(table.columns[i]) = Lower(name)]
    ELSE 10 * k

\* The text of a statistic, as || renders it
StatText(v) == IF v = 0 THEN <<"0", ".", "0">> ELSE IF v = 5 THEN <<"0", ".", "5">> ELSE <<"1", ".", "0">>

\* A selected value: [kind |-> "num", v |-> number] or [kind |-> "text", v |-> text].
\* value > cutoff and value >= value as the store compares them: numbers by value,
\* text above every number, text by code point.
ValueAbove(x, cutoff) == IF x.kind = "num" THEN x.v > cutoff ELSE TRUE
ValueGeq(x, y) == IF x.kind = "num" THEN x.v >= y.v ELSE ~TextLess(x.v, y.v)

\* What the query gives: [ok, columns, rows], each row [main, block].
marker_query(level, type, block_label, psi_cutoff, psi_block_cutoff) ==
    LET toks == SqlTokens(MarkerText(level, type, block_label))
        from == {k \in DOMAIN toks : toks[k] = Sym(" FROM ")}
        col == IF from = {} THEN <<>> ELSE SubSeq(toks, 2, (CHOOSE k \in from : \A m \in from : k <= m) - 1)
        table_name == TableName(level, type)
        failed == [ok |-> FALSE, columns |-> <<>>, rows |-> {}]
    IN  IF ~IsColumnExpr(col) \/ toks # MarkerShape(col, level, type) THEN failed
        ELSE IF table_name \notin DOMAIN store.tables THEN failed
        ELSE LET table == store.tables[table_name]
                 names == ColumnNames(col)
                 g == ColumnIndex(table, GeneNameCol)
                 Value(k) == IF Len(names) = 1
                             THEN [kind |-> "num", v |-> ColumnValue(table, k, names[1])]
                             ELSE [kind |-> "text",
                                   v |-> StatText(ColumnValue(table, k, names[1]))
                                         \o StatText(ColumnValue(table, k, names[2]))]
             IN  IF \E n \in Range(names) : ~Resolves(table, n) THEN failed
                 ELSE [ok |-> TRUE,
                       columns |-> Table1Columns \o <<block_label>>,
                       rows |-> {[main |-> r, block |-> Value(k)] :
                                    <<r, k>> \in {p \in store.table_1 \X DOMAIN table.rows :
                                        /\ p[1].gene_name = table.rows[p[2]][g]
                                        /\ p[1].Analysis_level = level
                                        /\ p[1].Analysis_type = type
                                        /\ p[1].Psi_mean > psi_cutoff
                                        /\ ValueAbove(Value(p[2]), psi_block_cutoff)}}]

marker_order_psi_only(r1, r2) == r1.main.Psi_mean >= r2.main.Psi_mean

\* ORDER BY T1.Psi_mean DESC, T2."{block_label}" DESC
marker_order(r1, r2) ==
    \/ r1.main.Psi_mean > r2.main.Psi_mean
    \/ r1.main.Psi_mean = r2.main.Psi_mean /\ ValueGeq(r1.block, r2.block)

marker_replies(level, type, block_label, psi_cutoff, psi_block_cutoff) ==
    IF ~ValidEnum(level, analysis_levels) \/ ~ValidEnum(type, analysis_types)
    THEN {Reply(Unprocessable, NoWork)}
    ELSE IF ~store.up THEN {Reply(Unhandled, NoWork)}
    ELSE LET df == marker_query(level, type, block_label, psi_cutoff, psi_block_cutoff)
         IN  IF ~df.ok
             THEN {Reply(ErrorResponse(500, "join_error"), MainQueries(1))}
             ELSE {Reply(df_to_csv_stream(df.columns, rows, MarkerCsv), MainQueries(1)) :
                     rows \in {s \in Orderings(df.rows) :
                                 \A i, j \in DOMAIN s : i < j => marker_order(s[i], s[j])}}

extract_marker ==
    /\ CanServe
    /\ \E level \in LevelInputs, type \in TypeInputs, block_label \in BlockLabelInputs,
          psi_cutoff \in Cutoffs, psi_block_cutoff \in BlockCutoffs :
          \E r \in marker_replies(level, type, block_label, psi_cutoff, psi_block_cutoff) :
              Answer(Request("marker", level, type, <<>>, block_label, psi_cutoff, psi_block_cutoff),
                     r.response, r.work)

(***************************************************************************)
(* /config                                                                  *)
(***************************************************************************)
SelectSeq2(seq, excluded) == SelectSeq(seq, LAMBDA c : c \notin excluded)

\* PRAGMA table_info('{table_name}'), without gene_name and ensembl_id; [] on any error
get_columns_from_table(table_name) ==
    IF ~store.up \/ table_name \notin DOMAIN store.tables THEN <<>>
    ELSE SelectSeq2(store.tables[table_name].columns, {GeneNameCol, EnsemblIdCol})

\* n calls of get_columns_from_table: each connects, runs the PRAGMA and closes,
\* unless the store file is missing
ColumnLookups(n) == IF store.up THEN MainQueries(n) ELSE NoWork

excluded_cols == {GeneNameCol, EnsemblIdCol, AnalysisLevelCol, AnalysisTypeCol}
unfiltered_labels(level, type) == get_columns_from_table(TableName(level, type))
filtered_labels(level, type) == SelectSeq2(get_columns_from_table(TableName(level, type)), excluded_cols)

full_config_all_pairs ==
    [level \in Range(analysis_levels) |->
        [type \in Range(analysis_types) |-> filtered_labels(level, type)]]

full_config_unfiltered ==
    [level \in Range(analysis_levels) |->
        [type \in {t \in Range(analysis_types) : unfiltered_labels(level, t) # <<>>} |->
            unfiltered_labels(level, type)]]

\* lines 132-140: every level gets an entry, a type only with labels
full_config ==
    [level \in Range(analysis_levels) |->
        [type \in {t \in Range(analysis_types) : filtered_labels(level, t) # <<>>} |->
            filtered_labels(level, type)]]

\* `if analysis_level and analysis_type`: both parameters were given
BothGiven(level, type) == level # NoText /\ type # NoText

config_replies(level, type) ==
    IF \/ level # NoText /\ ~ValidEnum(level, analysis_levels)
       \/ type # NoText /\ ~ValidEnum(type, analysis_types)
    THEN {Reply(Unprocessable, NoWork)}
    ELSE IF BothGiven(level, type)
    THEN IF filtered_labels(level, type) = <<>>
         THEN {Reply(ErrorResponse(404, "no_block_labels"), ColumnLookups(1))}
         ELSE {Reply(Response(200, "json", <<>>, <<>>, NoText, filtered_labels(level, type), <<>>),
                     ColumnLookups(1))}
    ELSE IF DOMAIN full_config = {}
         THEN {Reply(ErrorResponse(404, "no_config"),
                     ColumnLookups(Len(analysis_levels) * Len(analysis_types)))}
         ELSE {Reply(Response(200, "json_config", <<>>, <<>>, NoText, <<>>, full_config),
                     ColumnLookups(Len(analysis_levels) * Len(analysis_types)))}

get_analysis_config ==
    /\ CanServe
    /\ \E level \in LevelInputs \cup {NoText}, type \in TypeInputs \cup {NoText} :
          \E r \in config_replies(level, type) :
              Answer(Request("config", level, type, <<>>, NoText, 0, 0), r.response, r.work)

(***************************************************************************)
(* Handlers running side by side: FastAPI runs a `def` handler in a worker  *)
(* thread, so a request can be taken up, other requests answered, and the   *)
(* first one answered after them.                                           *)
(***************************************************************************)
ApiReplies(request) ==
    CASE request.op = "specificity" -> specificity_replies(request.gene_list)
      [] request.op = "psi_block" ->
            psi_block_replies(request.analysis_level, request.analysis_type, request.gene_list)
      [] request.op = "gene_expression" ->
            gene_expression_replies(request.analysis_level, request.analysis_type, request.gene_list)
      [] request.op = "highly_specific" ->
            highly_specific_replies(request.analysis_level, request.analysis_type,
                                    request.cutoff1, request.cutoff2)
      [] request.op = "non_specific" ->
            non_specific_replies(request.analysis_level, request.analysis_type,
                                 request.cutoff1, request.cutoff2)
      [] request.op = "marker" ->
            marker_replies(request.analysis_level, request.analysis_type, request.block_label,
                           request.cutoff1, request.cutoff2)
      [] request.op = "config" -> config_replies(request.analysis_level, request.analysis_type)

\* The requests held back: config in each of its shapes.
HeldRequests ==
    {Request("config", level, type, <<>>, NoText, 0, 0) :
        level \in LevelInputs \cup {NoText}, type \in TypeInputs \cup {NoText}}

\* A request is taken up; alone it would be answered with one of the responses `alone`.
Begin ==
    /\ pc = "idle"
    /\ pending.state = "none"
    /\ \E request \in HeldRequests :
          pending' = [state |-> "begun", request |-> request,
                      alone |-> {r.response : r \in ApiReplies(request)}, overtaken |-> FALSE]
    /\ UNCHANGED <<store, exprStore, analysis_levels, analysis_types, pc, req, resp, work,
                   openConns, tool>>

\* Its handler comes to its end with what the globals and the store are by then.
Finish ==
    /\ CanServe
    /\ pending.state = "begun"
    /\ \E r \in ApiReplies(pending.request) : Respond(pending.request, r.response, r.work)
    /\ pending' = [pending EXCEPT !.state = "finished"]
    /\ UNCHANGED tool

NextConcurrent ==
    \/ Startup
    \/ NextRequest
    \/ Begin
    \/ Finish
    \/ get_analysis_config
    \/ extract_non_specific

SpecConcurrent == Init /\ [][NextConcurrent]_vars

(***************************************************************************)
(* The MCP server: call_tool of src/mcp_server.py, which calls the API over *)
(* HTTP and turns the reply into a text.                                    *)
(***************************************************************************)
HousekeepingPsiDefault == 8
HousekeepingZetaDefault == 2
RelaxedPsiCutoff == 7
RelaxedZetaCutoff == 3
MarkerCutoffDefault == 7
HighlySpecificCutoffDefault == 7

KnownTools == {"get_config", "get_gene_specificity", "get_psi_block", "get_gene_expression",
               "get_marker_genes", "get_housekeeping_genes", "get_highly_specific_genes"}

Arguments(level, type, gene, label, c1, c2, help) ==
    [analysis_level |-> level, analysis_type |-> type, gene |-> gene, block_label |-> label,
     cutoff1 |-> c1, cutoff2 |-> c2, show_metrics_help |-> help]

\* The tool calls made: name and arguments (cutoffs left out by the caller are the
\* defaults of arguments.get).
ToolGenes == {<<"x","I">>, <<"x","'">>}
ToolPairs == {<<Lv, St>>, <<Ht, Ct>>}
HousekeepingCutoffs ==
    {<<HousekeepingPsiDefault, HousekeepingZetaDefault>>, <<10, 0>>, <<5, 5>>, <<0, 10>>}
ToolCalls ==
    {[name |-> "get_config", arguments |-> Arguments(level, type, NoText, NoText, 0, 0, help)] :
        level \in LevelInputs \cup {NoText}, type \in TypeInputs \cup {NoText}, help \in BOOLEAN}
    \cup {[name |-> "get_gene_specificity",
           arguments |-> Arguments(NoText, NoText, gene, NoText, 0, 0, FALSE)] : gene \in ToolGenes}
    \cup {[name |-> name, arguments |-> Arguments(p[1], p[2], gene, NoText, 0, 0, FALSE)] :
            name \in {"get_psi_block", "get_gene_expression"}, p \in ToolPairs, gene \in ToolGenes}
    \cup {[name |-> "get_marker_genes",
           arguments |-> Arguments(p[1], p[2], NoText, label, MarkerCutoffDefault,
                                   MarkerCutoffDefault, FALSE)] :
            p \in ToolPairs, label \in {B6, <<"z","z">>}}
    \cup {[name |-> "get_housekeeping_genes",
           arguments |-> Arguments(p[1], p[2], NoText, NoText, c[1], c[2], FALSE)] :
            p \in ToolPairs, c \in HousekeepingCutoffs}
    \cup {[name |-> "get_highly_specific_genes",
           arguments |-> Arguments(p[1], p[2], NoText, NoText, HighlySpecificCutoffDefault,
                                   HighlySpecificCutoffDefault, FALSE)] : p \in ToolPairs}
    \cup {[name |-> "get_everything", arguments |-> Arguments(NoText, NoText, NoText, NoText, 0, 0, FALSE)]}

\* await client.get(...): the reply of the API to the request, or no reply at all
TransportError == ErrorResponse(0, "transport")
HttpGet(request) ==
    {[request |-> request, response |-> r.response, work |-> r.work] : r \in ApiReplies(request)}
    \cup {[request |-> request, response |-> TransportError, work |-> NoWork]}

\* client.get raises, or response.raise_for_status() does
Raises(call) == call.response.status = 0 \/ call.response.status >= 400
\* len(lines) <= 1: the CSV holds a header and no row
NoDataLines(call) == Len(call.response.rows) = 0

ToolResult(name, arguments, outcome, text, calls, shown) ==
    [name |-> name, arguments |-> arguments, outcome |-> outcome, text |-> text,
     calls |-> calls, shown |-> shown]

\* name == "get_config", lines 179-230
get_config_results(name, arguments) ==
    {IF Raises(call) THEN ToolResult(name, arguments, "raised", "http_error", <<call>>, <<>>)
     ELSE LET config == call.response.analysis_config
              level == arguments.analysis_level
              atype == arguments.analysis_type
              partitions == IF level \in DOMAIN config THEN config[level] ELSE <<>>
              blocks == IF atype \in DOMAIN partitions THEN partitions[atype] ELSE <<>>
          IN  IF arguments.show_metrics_help
              THEN ToolResult(name, arguments, "text", "metrics_help", <<call>>, <<>>)
              ELSE IF level # NoText /\ atype # NoText
              THEN IF blocks = <<>>
                   THEN ToolResult(name, arguments, "text", "no_data", <<call>>, <<>>)
                   ELSE ToolResult(name, arguments, "text", "blocks", <<call>>, blocks)
              ELSE IF level # NoText
              THEN IF DOMAIN partitions = {}
                   THEN ToolResult(name, arguments, "text", "no_data", <<call>>, <<>>)
                   ELSE ToolResult(name, arguments, "text", "partitions", <<call>>, <<>>)
              ELSE ToolResult(name, arguments, "text", "overview", <<call>>, <<>>) :
        call \in HttpGet(Request("config", NoText, NoText, <<>>, NoText, 0, 0))}

\* name == "get_gene_specificity", "get_psi_block", "get_gene_expression": lines 232-353
gene_tool_results(name, arguments) ==
    LET request ==
            IF name = "get_gene_specificity"
            THEN Request("specificity", NoText, NoText, <<arguments.gene>>, NoText, 0, 0)
            ELSE Request(IF name = "get_psi_block" THEN "psi_block" ELSE "gene_expression",
                         arguments.analysis_level, arguments.analysis_type, <<arguments.gene>>,
                         NoText, 0, 0)
    IN  {IF Raises(call) THEN ToolResult(name, arguments, "raised", "http_error", <<call>>, <<>>)
         ELSE IF NoDataLines(call) THEN ToolResult(name, arguments, "text", "no_data", <<call>>, <<>>)
         ELSE ToolResult(name, arguments, "text", "analysis", <<call>>, <<>>) :
            call \in HttpGet(request)}

\* name == "get_marker_genes", "get_highly_specific_genes": lines 355-388, 435-468
cutoff_tool_results(name, arguments) ==
    LET request ==
            IF name = "get_marker_genes"
            THEN Request("marker", arguments.analysis_level, arguments.analysis_type, <<>>,
                         arguments.block_label, arguments.cutoff1, arguments.cutoff2)
            ELSE Request("highly_specific", arguments.analysis_level, arguments.analysis_type,
                         <<>>, NoText, arguments.cutoff1, arguments.cutoff2)
    IN  {IF Raises(call) THEN ToolResult(name, arguments, "text", "error", <<call>>, <<>>)
         ELSE IF NoDataLines(call) THEN ToolResult(name, arguments, "text", "none_found", <<call>>, <<>>)
         ELSE ToolResult(name, arguments, "text", "genes", <<call>>,
                         <<arguments.cutoff1, arguments.cutoff2, Len(call.response.rows)>>) :
            call \in HttpGet(request)}

\* name == "get_housekeeping_genes", lines 390-433
housekeeping_results(name, arguments) ==
    LET level == arguments.analysis_level
        atype == arguments.analysis_type
        psi_cut == arguments.cutoff1
        zeta_cut == arguments.cutoff2
        Shown(call, c1, c2, calls) ==
            IF NoDataLines(call)
            THEN ToolResult(name, arguments, "text", "none_found", calls, <<>>)
            ELSE ToolResult(name, arguments, "text", "genes", calls,
                            <<c1, c2, Len(call.response.rows)>>)
    IN  UNION {IF Raises(first)
               THEN {ToolResult(name, arguments, "text", "error", <<first>>, <<>>)}
               ELSE IF NoDataLines(first)
               THEN {IF Raises(second)
                     THEN ToolResult(name, arguments, "text", "error", <<first, second>>, <<>>)
                     ELSE Shown(second, RelaxedPsiCutoff, RelaxedZetaCutoff, <<first, second>>) :
                        second \in HttpGet(Request("non_specific", level, atype, <<>>, NoText,
                                                   RelaxedPsiCutoff, RelaxedZetaCutoff))}
               ELSE {Shown(first, psi_cut, zeta_cut, <<first>>)} :
            first \in HttpGet(Request("non_specific", level, atype, <<>>, NoText, psi_cut, zeta_cut))}

ToolResults(name, arguments) ==
    CASE name = "get_config" -> get_config_results(name, arguments)
      [] name \in {"get_gene_specificity", "get_psi_block", "get_gene_expression"} ->
            gene_tool_results(name, arguments)
      [] name \in {"get_marker_genes", "get_highly_specific_genes"} ->
            cutoff_tool_results(name, arguments)
      [] name = "get_housekeeping_genes" -> housekeeping_results(name, arguments)
      [] OTHER -> {ToolResult(name, arguments, "raised", "unknown_tool", <<>>, <<>>)}

RECURSIVE TotalWork(_)
TotalWork(calls) ==
    IF Len(calls) = 0 THEN NoWork
    ELSE LET a == calls[1].work
             b == TotalWork(Tail(calls))
         IN  Work(a.mainOpened + b.mainOpened, a.mainClosed + b.mainClosed,
                  a.exprOpened + b.exprOpened, a.exprClosed + b.exprClosed, a.queries + b.queries)

\* One tool call from its first line to its return or raise; the API has by then
\* answered the calls that reached it.
call_tool ==
    /\ CanServe
    /\ \E c \in ToolCalls : \E result \in ToolResults(c.name, c.arguments) :
          LET reached == SelectSeq(result.calls, LAMBDA call : call.response.status # 0)
              w == TotalWork(reached)
          IN  /\ tool' = result
              /\ pc' = "done"
              /\ req' = IF reached = <<>> THEN NoRequest ELSE reached[Len(reached)].request
              /\ resp' = IF reached = <<>> THEN NoResponse ELSE reached[Len(reached)].response
              /\ work' = w
              /\ openConns' = [main |-> openConns.main + w.mainOpened - w.mainClosed,
                               expr |-> openConns.expr + w.exprOpened - w.exprClosed]
    /\ UNCHANGED <<store, exprStore, analysis_levels, analysis_types, pending>>

NextTool ==
    \/ Startup
    \/ NextRequest
    \/ call_tool

SpecTool == Init /\ [][NextTool]_vars

Next ==
    \/ Startup
    \/ NextRequest
    \/ extract_all_specificity_per_gene
    \/ extract_psi_block
    \/ extract_gene_expression
    \/ extract_highly_specific
    \/ extract_non_specific
    \/ extract_marker
    \/ get_analysis_config

Spec == Init /\ [][Next]_vars

(***************************************************************************)
(* Properties                                                               *)
(***************************************************************************)
Done(op) == pc = "done" /\ req.op = op
RankOps == {"highly_specific", "non_specific"}
ParamsValid ==
    /\ ValidEnum(req.analysis_level, analysis_levels)
    /\ ValidEnum(req.analysis_type, analysis_types)

RECURSIVE CaseVariants(_)
CaseVariants(t) ==
    IF Len(t) = 0 THEN {<<>>}
    ELSE {<<c>> \o v : c \in {UpperCh(t[1]), LowerCh(t[1])}, v \in CaseVariants(Tail(t))}

C3_RankOrder ==
    (pc = "done" /\ req.op \in RankOps /\ resp.status = 200) =>
        \A i \in 1..(Len(resp.rows) - 1) :
            LET r1 == resp.rows[i]
                r2 == resp.rows[i + 1]
            IN  /\ r1.Psi_mean >= r2.Psi_mean
                /\ r1.Psi_mean = r2.Psi_mean =>
                      IF req.op = "highly_specific"
                      THEN r1.Zeta_mean >= r2.Zeta_mean
                      ELSE r1.Zeta_mean <= r2.Zeta_mean

\* A rank-filter-low result of two rows with equal fit and different concentration.
C3_Witness ==
    /\ Done("non_specific")
    /\ Len(resp.rows) = 2
    /\ resp.rows[1].Psi_mean = resp.rows[2].Psi_mean
    /\ resp.rows[1].Zeta_mean < resp.rows[2].Zeta_mean

\* The filename rule of the specification applied to a list of identifiers.
ClaimedFilename(ids) ==
    IF Len(ids) <= 3
    THEN Join([i \in 1..Len(ids) |-> ReplaceSpace(ids[i])], <<"_">>) \o SpecificityCsv
    ELSE IntText(Len(ids)) \o SpecificityCsv

\* C4 as stated: the filename of a lookup response follows the rule applied to the
\* identifiers of the request.
C4_FilenameFromRequest ==
    (Done("specificity") /\ resp.status = 200) => resp.filename = ClaimedFilename(req.gene_list)

\* C4 amended: the filename follows the rule applied to the normalized identifiers.
C4_FilenameFromNormalized ==
    (Done("specificity") /\ resp.status = 200) =>
        resp.filename = ClaimedFilename(normalize_gene_inputs(req.gene_list))

\* A lookup of exactly three identifiers, one with a space, whose filename differs
\* from the one the request's own spelling would give.
C4_Witness ==
    /\ Done("specificity")
    /\ resp.status = 200
    /\ Len(req.gene_list) = 3
    /\ <<"a"," ","b">> \in Range(req.gene_list)
    /\ resp.filename # ClaimedFilename(req.gene_list)

\* C5: a partition dump for a (level, type) pair of the config directory is never
\* answered 404.
C5_CatalogPairsDumpable ==
    (/\ Done("psi_block")
     /\ req.analysis_level \in DOMAIN full_config
     /\ req.analysis_type \in DOMAIN full_config[req.analysis_level]) => resp.status # 404

\* C6: a marker join whose block_label names no column of the partition table is
\* answered 500.
C6_UnknownBlockLabelFails ==
    (/\ Done("marker")
     /\ ParamsValid
     /\ store.up
     /\ TableName(req.analysis_level, req.analysis_type) \in DOMAIN store.tables
     /\ ~ResolvesToColumn(store.tables[TableName(req.analysis_level, req.analysis_type)],
                          req.block_label)) => resp.status = 500

\* C7: config with both parameters is answered 404 when the partition table is absent
\* or has no block-label column.
C7_ConfigPairNotFound ==
    (/\ Done("config")
     /\ req.analysis_level # NoText /\ req.analysis_type # NoText
     /\ ParamsValid
     /\ LET table_name == TableName(req.analysis_level, req.analysis_type)
        IN  \/ ~store.up
            \/ table_name \notin DOMAIN store.tables
            \/ Range(store.tables[table_name].columns) \subseteq
                  {GeneNameCol, EnsemblIdCol, AnalysisLevelCol, AnalysisTypeCol})
    => (resp.status = 404 /\ resp.block_labels = <<>>)

\* config with both parameters for a pair of the catalog that has no partition table.
C7_Witness ==
    /\ Done("config")
    /\ req.analysis_level # NoText /\ req.analysis_type # NoText
    /\ ParamsValid
    /\ TableName(req.analysis_level, req.analysis_type) \notin DOMAIN store.tables
    /\ resp.status = 404

\* The request's query was accepted by the store and selected no row.
ZeroRowQuery ==
    /\ pc = "done"
    /\ CASE req.op = "specificity" ->
              /\ Len(req.gene_list) > 0 /\ store.up
              /\ specificity_rows(req.gene_list, store.table_1) = [ok |-> TRUE, rows |-> {}]
         [] req.op = "psi_block" ->
              /\ ParamsValid /\ store.up
              /\ LET df == table_select(store.tables,
                               TableName(req.analysis_level, req.analysis_type), req.gene_list)
                 IN  df.ok /\ df.rows = {}
         [] req.op = "gene_expression" ->
              /\ ParamsValid /\ exprStore.up
              /\ LET df == table_select(exprStore.tables,
                               TableName(req.analysis_level, req.analysis_type), req.gene_list)
                 IN  df.ok /\ df.rows = {}
         [] req.op = "highly_specific" ->
              /\ ParamsValid /\ store.up
              /\ \A r \in store.table_1 :
                    ~(/\ r.Analysis_level = req.analysis_level
                      /\ r.Analysis_type = req.analysis_type
                      /\ r.Psi_mean > req.cutoff1 /\ r.Zeta_mean > req.cutoff2)
         [] req.op = "non_specific" ->
              /\ ParamsValid /\ store.up
              /\ \A r \in store.table_1 :
                    ~(/\ r.Analysis_level = req.analysis_level
                      /\ r.Analysis_type = req.analysis_type
                      /\ r.Psi_mean > req.cutoff1 /\ r.Zeta_mean < req.cutoff2)
         [] req.op = "marker" ->
              /\ ParamsValid /\ store.up
              /\ LET df == marker_query(req.analysis_level, req.analysis_type, req.block_label,
                                        req.cutoff1, req.cutoff2)
                 IN  df.ok /\ df.rows = {}
         [] OTHER -> FALSE

\* C8: a query that selects no row is answered 200 with a table of a header and no rows.
C8_EmptyTableNotError ==
    ZeroRowQuery => (resp.status = 200 /\ resp.rows = <<>> /\ resp.columns # <<>>)

\* A rank-filter-high request whose level and type have rows, none above the cutoffs.
C8_Witness ==
    /\ ZeroRowQuery
    /\ req.op = "highly_specific"
    /\ \E r \in store.table_1 :
          r.Analysis_level = req.analysis_level /\ r.Analysis_type = req.analysis_type
    /\ resp.status = 200

\* C9: a lookup without identifiers is rejected before anything touches the store.
C9_EmptyListRejected ==
    (Done("specificity") /\ req.gene_list = <<>>) =>
        /\ resp.status = 422
        /\ resp.columns = <<>>
        /\ work = NoWork

\* A lookup without identifiers, answered, against a store that is there.
C9_Witness ==
    /\ Done("specificity")
    /\ req.gene_list = <<>>
    /\ store.up /\ store.table_1 # {}
    /\ resp.status = 422

\* C10: config with exactly one of level and type is not answered successfully.
C10_LoneParameterRejected ==
    (/\ Done("config")
     /\ (req.analysis_level = NoText) # (req.analysis_type = NoText)) => resp.status # 200

\* C11: config with neither parameter is answered 404 whenever no (level, type) pair of
\* the catalog has a block label, levels discovered or not.
C11_EmptyDirectoryNotFound ==
    (/\ Done("config")
     /\ req.analysis_level = NoText /\ req.analysis_type = NoText
     /\ \A level \in Range(analysis_levels), type \in Range(analysis_types) :
           filtered_labels(level, type) = <<>>) => resp.status = 404

\* C12: after a start-up at which the store could not be reached, the level and type
\* domains are not empty.
C12_StartupFallback ==
    (pc # "boot" /\ ~store.up) => (analysis_levels # <<>> /\ analysis_types # <<>>)

\* C13: in a marker join that reached the store, the text put in column position reads
\* as one quoted identifier whose content is the block_label of the request.
C13_BlockLabelStaysQuoted ==
    (Done("marker") /\ work.queries > 0) =>
        SqlTokens(ColumnText(req.block_label)) = << <<"id", req.block_label>> >>

\* C14: a marker join reaches the store only with a block_label that is one of the
\* block labels discovered for the partition table of its level and type.
C14_BlockLabelInCatalog ==
    (Done("marker") /\ work.queries > 0) =>
        req.block_label \in Range(filtered_labels(req.analysis_level, req.analysis_type))

\* C15: a request that has returned has closed every connection it opened, and between
\* requests no connection is open.
C15_ConnectionsReleased ==
    /\ pc = "done" => (work.mainOpened = work.mainClosed /\ work.exprOpened = work.exprClosed)
    /\ pc = "idle" => (openConns.main = 0 /\ openConns.expr = 0)

IsLetter(c) == IsLowerCh(c) \/ IsUpperCh(c)
\* str.title: the first letter of each word in upper case, the other letters in lower case
Title(s) ==
    [i \in 1..Len(s) |-> IF i = 1 \/ ~IsLetter(s[i - 1]) THEN UpperCh(s[i]) ELSE LowerCh(s[i])]

\* C16: the identifiers a lookup works with are, in the order and number of the request,
\* the upper-cased token for a token starting with ENS in any case and the title-cased
\* token for any other.
C16_TitleCaseNormalization ==
    (Done("specificity") /\ Len(req.gene_list) > 0) =>
        LET normalized == normalize_gene_inputs(req.gene_list)
        IN  /\ Len(normalized) = Len(req.gene_list)
            /\ \A i \in DOMAIN req.gene_list :
                  normalized[i] = IF StartsWith(Upper(req.gene_list[i]), ENS)
                                  THEN Upper(req.gene_list[i])
                                  ELSE Title(req.gene_list[i])

\* The request names a catalog pair whose partition table the reachable store lacks.
PartitionTableAbsent ==
    /\ ParamsValid
    /\ store.up
    /\ TableName(req.analysis_level, req.analysis_type) \notin DOMAIN store.tables

BlockLabelDeclared ==
    /\ ParamsValid
    /\ store.up
    /\ TableName(req.analysis_level, req.analysis_type) \in DOMAIN store.tables
    /\ ResolvesToColumn(store.tables[TableName(req.analysis_level, req.analysis_type)], req.block_label)

\* The pairs of the claim: main row and block value of the partition row of the same
\* gene_name, main row of the requested level and type with fit above the first cutoff,
\* block value above the second.
MarkerPairs ==
    LET table == store.tables[TableName(req.analysis_level, req.analysis_type)]
        g == CHOOSE i \in DOMAIN table.columns : table.columns[i] = GeneNameCol
        b == CHOOSE i \in DOMAIN table.columns : Lower(table.columns[i]) = Lower(req.block_label)
    IN  {[main |-> p[1], block |-> [kind |-> "num", v |-> table.rows[p[2]][b]]] :
            p \in {q \in store.table_1 \X DOMAIN table.rows :
                    /\ q[1].gene_name = table.rows[q[2]][g]
                    /\ q[1].Analysis_level = req.analysis_level
                    /\ q[1].Analysis_type = req.analysis_type
                    /\ q[1].Psi_mean > req.cutoff1
                    /\ table.rows[q[2]][b] > req.cutoff2}}

RowSequences ==
    LET table_name == TableName(req.analysis_level, req.analysis_type)
    IN  CASE req.op = "psi_block" ->
                Orderings(table_select(store.tables, table_name, req.gene_list).rows)
          [] req.op = "gene_expression" ->
                Orderings(table_select(exprStore.tables, table_name, req.gene_list).rows)
          [] req.op = "highly_specific" ->
                {s \in Orderings({r \in store.table_1 :
                        highly_specific_where(r, req.analysis_level, req.analysis_type,
                                              req.cutoff1, req.cutoff2)}) :
                    \A i, j \in DOMAIN s : i < j => highly_specific_order(s[i], s[j])}
          [] req.op = "non_specific" ->
                {s \in Orderings({r \in store.table_1 :
                        non_specific_where(r, req.analysis_level, req.analysis_type,
                                           req.cutoff1, req.cutoff2)}) :
                    \A i, j \in DOMAIN s : i < j => non_specific_order(s[i], s[j])}
          [] req.op = "marker" ->
                {s \in Orderings(marker_query(req.analysis_level, req.analysis_type,
                                              req.block_label, req.cutoff1, req.cutoff2).rows) :
                    \A i, j \in DOMAIN s : i < j => marker_order(s[i], s[j])}
          [] OTHER -> {}

\* C19: a partition dump, a rank filter, a marker join and a filtered expression lookup
\* return the one row sequence their query allows: the same request against the same
\* store cannot return another.
C19_RowSequenceDetermined ==
    (/\ pc = "done"
     /\ req.op \in {"psi_block", "highly_specific", "non_specific", "marker", "gene_expression"}
     /\ req.op = "gene_expression" => req.gene_list # <<>>
     /\ resp.status = 200) => \A s \in RowSequences : s = resp.rows

C22_StoresIndependent ==
    /\ pc = "done" =>
          (IF req.op = "gene_expression" THEN work.mainOpened = 0 ELSE work.exprOpened = 0)
    /\ (/\ Done("gene_expression")
        /\ ~store.up
        /\ exprStore.up
        /\ TableName(req.analysis_level, req.analysis_type) \in DOMAIN exprStore.tables
        /\ req.gene_list = <<>>) => resp.status = 200

\* The columns of a partition table of the store that are block labels.
LabelsInStore(level, type) ==
    IF ~store.up \/ TableName(level, type) \notin DOMAIN store.tables THEN <<>>
    ELSE SelectSeq(store.tables[TableName(level, type)].columns,
                   LAMBDA c : c \notin {GeneNameCol, EnsemblIdCol, AnalysisLevelCol, AnalysisTypeCol})

FullDirectoryReturned ==
    /\ Done("config")
    /\ req.analysis_level = NoText /\ req.analysis_type = NoText
    /\ resp.status = 200

\* C23: block-label discovery gives the empty list for a table that is not there or a
\* store that cannot be read, and a returned full directory has an entry for a pair of
\* the catalog exactly when the table of the pair has a block label.
C23_DirectoryEntries ==
    /\ \A level \in LevelInputs, type \in TypeInputs :
          (~store.up \/ TableName(level, type) \notin DOMAIN store.tables) =>
              get_columns_from_table(TableName(level, type)) = <<>>
    /\ FullDirectoryReturned =>
          \A level \in Range(analysis_levels), type \in Range(analysis_types) :
              (/\ level \in DOMAIN resp.analysis_config
               /\ type \in DOMAIN resp.analysis_config[level]) <=> (LabelsInStore(level, type) # <<>>)

\* A full directory with an entry for one pair of the catalog and none for another
\* whose table is there without any block label.
C23_Witness ==
    /\ FullDirectoryReturned
    /\ \E level \in Range(analysis_levels), type \in Range(analysis_types) :
          LabelsInStore(level, type) # <<>>
    /\ \E level \in Range(analysis_levels), type \in Range(analysis_types) :
          /\ TableName(level, type) \in DOMAIN store.tables
          /\ LabelsInStore(level, type) = <<>>

\* C24: a partition dump or an expression lookup is answered 404 only when its table is
\* absent from its store.
C24_NotFoundOnlyWhenAbsent ==
    (pc = "done" /\ req.op \in {"psi_block", "gene_expression"} /\ resp.status = 404) =>
        TableName(req.analysis_level, req.analysis_type) \notin
            DOMAIN (IF req.op = "psi_block" THEN store.tables ELSE exprStore.tables)

\* C25: in a returned full directory every level has a type and every type a label.
C25_NoEmptyLevel ==
    FullDirectoryReturned =>
        \A level \in DOMAIN resp.analysis_config :
            /\ DOMAIN resp.analysis_config[level] # {}
            /\ \A type \in DOMAIN resp.analysis_config[level] :
                  resp.analysis_config[level][type] # <<>>

\* C26: config for a pair of the catalog succeeds exactly when the full directory of the
\* same store has an entry for the pair, and then returns the list of that entry.
C26_ShapesAgree ==
    (/\ Done("config")
     /\ req.analysis_level # NoText /\ req.analysis_type # NoText
     /\ ParamsValid) =>
        LET inDirectory == /\ req.analysis_level \in DOMAIN full_config
                           /\ req.analysis_type \in DOMAIN full_config[req.analysis_level]
        IN  /\ (resp.status = 200) <=> inDirectory
            /\ inDirectory => resp.block_labels = full_config[req.analysis_level][req.analysis_type]

\* config for a pair answered with two block labels, and config for a pair whose table
\* holds no block label answered 404.
C26_Witness ==
    /\ Done("config")
    /\ req.analysis_level # NoText /\ req.analysis_type # NoText
    /\ ParamsValid
    /\ \/ resp.status = 200 /\ Len(resp.block_labels) = 2
       \/ /\ resp.status = 404
          /\ TableName(req.analysis_level, req.analysis_type) \in DOMAIN store.tables

\* C27: normalizing the identifiers a lookup works with gives the same identifiers.
C27_NormalizationIdempotent ==
    (Done("specificity") /\ work.queries > 0) =>
        normalize_gene_inputs(normalize_gene_inputs(req.gene_list)) = normalize_gene_inputs(req.gene_list)

\* C21: after start-up no step changes the discovered level and type sets, and a request
\* answered after other requests were answered in between gets a response it could have
\* got alone.
C21_CatalogFixedResponsesAlone ==
    /\ [][pc # "boot" => (analysis_levels' = analysis_levels /\ analysis_types' = analysis_types)]_vars
    /\ [](pending.state = "finished" => resp \in pending.alone)

\* A full directory returned to a request that was overtaken by another one.
C21_Witness ==
    /\ pending.state = "finished"
    /\ pending.overtaken
    /\ pending.request.analysis_level = NoText /\ pending.request.analysis_type = NoText
    /\ resp.status = 200
    /\ Len(analysis_levels) = 2

\* The tenths a statistic can take.
StatValues == 0..10

\* C28: the housekeeping tool queries at most twice, a second time exactly when the first
\* query came back without rows; the second query has the cutoffs 0.7 and 0.3 and accepts
\* every row the first one's cutoffs accept; the cutoffs of the summary are those of the
\* query whose rows it shows.
C28_HousekeepingRetry ==
    (pc = "done" /\ tool.name = "get_housekeeping_genes") =>
        LET n == Len(tool.calls)
            first == tool.calls[1]
            last == tool.calls[n]
        IN  /\ n \in 1..2
            /\ (n = 2) <=> (first.response.status = 200 /\ first.response.rows = <<>>)
            /\ n = 2 =>
                  /\ last.request.cutoff1 = 7 /\ last.request.cutoff2 = 3
                  /\ \A p \in StatValues, z \in StatValues :
                        (p > first.request.cutoff1 /\ z < first.request.cutoff2) =>
                            (p > last.request.cutoff1 /\ z < last.request.cutoff2)
            /\ tool.text = "genes" =>
                  tool.shown = <<last.request.cutoff1, last.request.cutoff2, Len(last.response.rows)>>

\* C29: a call of a known tool whose API call failed returns a text, and nothing but an
\* unknown tool name makes call_tool raise.
C29_FailedCallsBecomeText ==
    (pc = "done" /\ tool.name # "none") =>
        /\ (tool.name \in KnownTools /\ \E i \in DOMAIN tool.calls : Raises(tool.calls[i])) =>
              tool.outcome = "text"
        /\ tool.outcome = "raised" => tool.name \notin KnownTools

====
